---- MODULE Spec2Model ----
(***************************************************************************)
(* Model of the @honestjs/rpc-plugin analysis pipeline: RPCPlugin          *)
(* (coordinator), RouteAnalyzerService, SchemaGeneratorService and the     *)
(* path / schema / type utilities.                                         *)
(*                                                                         *)
(* Text is modelled as a sequence of one-character strings, so that        *)
(* String.prototype.replace, startsWith and slice act on characters.       *)
(***************************************************************************)
EXTENDS Integers, Sequences, FiniteSets, TLC

VARIABLES
    \* ---- environment of the plugin --------------------------------------
    routeTable,       \* RouteRegistry.getRoutes(): ordered RouteInfo entries
    sources,          \* the class declarations of the controller sources
    throwing,         \* positions of the routes whose type resolution throws
    failingTypes,     \* type names for which the schema provider throws
    fault,            \* the collaborator that fails, if any (see Faults)
    \* ---- RPCPlugin ------------------------------------------------------
    analyzedRoutes,   \* RPCPlugin.analyzedRoutes
    analyzedSchemas,  \* RPCPlugin.analyzedSchemas
    generatedInfo,    \* RPCPlugin.generatedInfo
    raProjects,       \* RouteAnalyzerService.projects
    sgProjects,       \* SchemaGeneratorService.projects
    \* ---- position of analyzeEverything() and what its caller saw ---------
    pc,               \* "idle" | "routes" | "schemas" | "client" | "catch"
    pendingError,     \* the error caught by analyzeEverything's catch block
    outcome,          \* how the last analyze() ended: "none" | "ok" | "failed"
    lastError,        \* the error the caller of analyze() received
    runs,             \* number of analyze() calls started
    clock,            \* wall clock read by client generation
    preRoutes,        \* getRoutes() when the current/last run started
    preSchemas,       \* getSchemas() when the current/last run started
    clientCalls,      \* every generateClient call: run, arguments, whether it threw
    stages,           \* the stages the current/last run has invoked, in order
    \* ---- buildFullPath applied to drawn inputs ---------------------------
    basePath,         \* argument basePath
    parameters,       \* argument parameters
    fullPath,         \* the returned path
    pathDone,         \* TRUE once buildFullPath has returned
    \* ---- collectTypesFromMethod applied to drawn inputs -----------------
    methodIn,         \* argument method
    collectedIn,      \* argument collectedTypes on entry, in insertion order
    collectedOut,     \* the same Set when the function has returned
    collectDone,      \* TRUE once collectTypesFromMethod has returned
    \* ---- generateTypeScriptInterface applied to drawn inputs ------------
    typeNameIn,       \* argument typeName
    schemaIn,         \* argument schema
    interfaceCode,    \* the returned declaration
    interfaceDone     \* TRUE once generateTypeScriptInterface has returned

pluginVars == <<routeTable, sources, throwing, failingTypes, fault, analyzedRoutes, analyzedSchemas, generatedInfo,
                raProjects, sgProjects, pc, pendingError, outcome, lastError, runs,
                clock, preRoutes, preSchemas, clientCalls, stages>>
pathVars == <<basePath, parameters, fullPath, pathDone>>
collectVars == <<methodIn, collectedIn, collectedOut, collectDone>>
interfaceVars == <<typeNameIn, schemaIn, interfaceCode, interfaceDone>>
utilVars == <<pathVars, collectVars, interfaceVars>>
vars == <<pluginVars, utilVars>>

\* ------------------------------------------------------------------ bounds
MaxRoutes == 2
MaxClasses == 2
MaxRuns == 2
MaxSegments == 2
MaxPathParams == 2
MaxDeclaredParams == 1  \* parameters of the method given to collectTypesFromMethod
MaxProperties == 2      \* properties of a definition given to generateTypeScriptInterface

\* ------------------------------------------------------------- text helpers
\* The empty text; also stands for undefined where the code tests truthiness.
Empty == <<>>

Slash == <<"/">>

RECURSIVE Flatten(_)
Flatten(ss) == IF ss = <<>> THEN <<>> ELSE Head(ss) \o Flatten(Tail(ss))

StartsWith(s, p) == Len(s) >= Len(p) /\ SubSeq(s, 1, Len(p)) = p

\* Positions at which pat occurs in s.
Occurrences(s, pat) ==
    {i \in 1..(Len(s) - Len(pat) + 1) : SubSeq(s, i, i + Len(pat) - 1) = pat}

Contains(s, pat) == Occurrences(s, pat) # {}

Min(S) == CHOOSE x \in S : \A y \in S : x <= y

\* String.prototype.replace(pattern: string, replacement: string): only the
\* first occurrence of the pattern is replaced.
StringReplace(s, pat, rep) ==
    IF ~Contains(s, pat) THEN s
    ELSE LET i == Min(Occurrences(s, pat))
         IN SubSeq(s, 1, i - 1) \o rep \o SubSeq(s, i + Len(pat), Len(s))

\* `${name}`
InterpolationToken(name) == <<"$", "{">> \o name \o <<"}">>

\* ------------------------------------------------------------- path-utils.ts
\* The loop of buildFullPath over the parameters, in order.
RECURSIVE ReplaceParams(_, _)
ReplaceParams(path, params) ==
    IF params = <<>> THEN path
    ELSE LET data == Head(params).data
             next == IF data # Empty /\ StartsWith(data, <<":">>)
                     THEN LET paramName == SubSeq(data, 2, Len(data))
                          IN StringReplace(path, <<":">> \o paramName,
                                           InterpolationToken(paramName))
                     ELSE path
         IN ReplaceParams(next, Tail(params))

buildFullPath(bp, params) ==
    IF bp = Empty THEN Slash ELSE ReplaceParams(bp, params)

\* ------------------------------------------------------------ string-utils.ts
\* Values of unknown type are records [t, v]: a string, or a symbol with its
\* description (Empty when it has none). Names are sequences of tokens.
Str(v) == [t |-> "string", v |-> v]
Sym(v) == [t |-> "symbol", v |-> v]

safeToString(value) ==
    IF value.t = "string" THEN value.v
    ELSE IF value.t = "symbol" THEN (IF value.v # Empty THEN value.v ELSE <<"Symbol">>)
    ELSE value.v

\* String.prototype.toUpperCase on the tokens the route table uses.
UpperToken(tok) ==
    CASE tok = "get" -> "GET"
      [] tok = "post" -> "POST"
      [] tok = "delete" -> "DELETE"
      [] OTHER -> tok

toUpperCase(s) == [i \in 1..Len(s) |-> UpperToken(s[i])]

\* Decimal text of a small natural number, as template literals render it.
NumText(n) == <<(<<"0", "1", "2", "3", "4", "5", "6", "7", "8", "9">>)[n + 1]>>

\* ----------------------------------------------------------------- the types
\* A ts-morph Type: alias symbol name and alias type arguments, symbol name and
\* type arguments ("" = no symbol), and the text getText() prints, as tokens.
ImportUser == "import(\"/src/modules/users/user.model\")."
ImportPost == "import(\"/src/modules/posts/post.model\")."
ImportTokens == {ImportUser, ImportPost}

Ty(alias, aliasArgs, sym, args, text) ==
    [alias |-> alias, aliasArgs |-> aliasArgs, sym |-> sym, args |-> args, text |-> text]

T_string == Ty("", <<>>, "", <<>>, <<"string">>)
T_void == Ty("", <<>>, "", <<>>, <<"void">>)
T_User == Ty("", <<>>, "User", <<>>, <<ImportUser, "User">>)
T_Post == Ty("", <<>>, "Post", <<>>, <<ImportPost, "Post">>)
T_CreateUserDto == Ty("", <<>>, "CreateUserDto", <<>>, <<ImportUser, "CreateUserDto">>)
T_Secret == Ty("", <<>>, "Secret", <<>>, <<"Secret">>)
T_PromiseUser == Ty("", <<>>, "Promise", <<T_User>>, <<"Promise<", ImportUser, "User", ">">>)
T_UserList == Ty("UserList", <<>>, "Array", <<T_User>>, <<"UserList">>)
T_MapStringPost ==
    Ty("", <<>>, "Map", <<T_string, T_Post>>, <<"Map<", "string", ", ", ImportPost, "Post", ">">>)
\* Partial<User>: a mapped type reached through the alias Partial.
T_PartialUser == Ty("Partial", <<T_User>>, "", <<>>, <<"Partial<", ImportUser, "User", ">">>)
\* Page<User>: a user-declared generic interface with one type parameter.
T_PageUser == Ty("", <<>>, "Page", <<T_User>>, <<"Page<", ImportUser, "User", ">">>)
\* Pair<User, Post>: a user-declared generic interface with two type parameters.
T_PairUserPost ==
    Ty("", <<>>, "Pair", <<T_User, T_Post>>,
       <<"Pair<", ImportUser, "User", ", ", ImportPost, "Post", ">">>)
\* Promise<Pair<User, Post>>
T_PromisePair ==
    Ty("", <<>>, "Promise", <<T_PairUserPost>>,
       <<"Promise<", "Pair<", ImportUser, "User", ", ", ImportPost, "Post", ">", ">">>)

\* typeText.replace(/import\(".*?"\)\./g, '')
StripImports(text) == SelectSeq(text, LAMBDA tok : tok \notin ImportTokens)

\* ------------------------------------------------------- controller sources
\* A class declaration of the analysed source files: its name and its methods,
\* each with its declared parameters and its return type.
Param(name, type) == [name |-> name, type |-> type]
Method(name, params, ret) == [name |-> name, params |-> params, ret |-> ret]

UsersController ==
    [name |-> <<"Users", "Controller">>,
     methods |-> << Method(<<"create">>, <<Param(<<"createUserDto">>, T_CreateUserDto)>>,
                           T_PromiseUser),
                    Method(<<"getById">>, <<Param(<<"id">>, T_string)>>, T_UserList) >>]

PostsController ==
    [name |-> <<"Posts", "Controller">>,
     methods |-> << Method(<<"list">>, <<>>, T_MapStringPost) >>]

AuditHelper ==
    [name |-> <<"Audit", "Helper">>,
     methods |-> << Method(<<"record">>, <<Param(<<"secret">>, T_Secret)>>, T_void) >>]

ClassPool == {UsersController, PostsController, AuditHelper}

\* ------------------------------------------------------------ the route table
\* ParameterMetadata: index, name (the decorator kind), data, metatype name
\* ("" = no metatype).
RawParam(index, name, data, metatype) ==
    [index |-> index, name |-> name, data |-> data, metatype |-> metatype]

P_api == <<"/", "a", "p", "i">>
P_v1 == <<"v", "1">>
P_users == <<"u", "s", "e", "r", "s">>
P_posts == <<"/", "p", "o", "s", "t", "s">>
P_id == <<"/", ":", "i", "d">>

Route(controller, handler, method, prefix, version, route, path, params) ==
    [controller |-> controller, handler |-> handler, method |-> method,
     prefix |-> prefix, version |-> version, route |-> route, path |-> path,
     parameters |-> params]

R_create ==
    Route(Str(<<"Users", "Controller">>), Str(<<"create">>), Str(<<"post">>),
          P_api, P_v1, P_users, Slash,
          << RawParam(0, "body", Empty, "CreateUserDto") >>)

R_getById ==
    Route(Str(<<"Users", "Controller">>), Str(<<"getById">>), Str(<<"get">>),
          P_api, P_v1, P_users, P_id,
          << RawParam(1, "query", <<"q">>, ""),
             RawParam(0, "param", <<":", "i", "d">>, "String") >>)

R_remove ==
    Route(Str(<<"Users", "Controller">>), Str(<<"remove">>), Str(<<"delete">>),
          P_api, P_v1, P_users, P_id,
          << RawParam(0, "param", <<":", "i", "d">>, "String") >>)

R_list ==
    Route(Str(<<"Posts", "Controller">>), Sym(<<"list">>), Str(<<"get">>),
          Empty, Empty, P_posts, Empty,
          << RawParam(2, "query", <<"p">>, "Number"), RawParam(0, "header", Empty, "") >>)

RoutePool == {R_create, R_getById, R_remove, R_list}

\* Sequences over S of length at most n.
SeqsUpTo(S, n) == UNION {[1..k -> S] : k \in 0..n}

\* Sequences over S without repetition, of length at most n.
DistinctSeqsUpTo(S, n) ==
    {s \in SeqsUpTo(S, n) : \A i, j \in 1..Len(s) : s[i] = s[j] => i = j}

\* -------------------------------------------------------------------- errors
Error(stage, message) == [stage |-> stage, message |-> message]
NoError == Error("none", <<>>)

\* Array.prototype.join on a list of texts.
RECURSIVE Join(_, _)
Join(texts, sep) ==
    IF texts = <<>> THEN <<>>
    ELSE IF Len(texts) = 1 THEN Head(texts)
    ELSE Head(texts) \o <<sep>> \o Join(Tail(texts), sep)

\* An optional value: <<>> is undefined, <<x>> is x.
None == <<>>
Some(x) == <<x>>

\* ------------------------------------------------------ RouteAnalyzerService
EndsWithController(className) ==
    className # <<>> /\ className[Len(className)] = "Controller"

\* The Map built by findControllerClasses, as a function: a later class of the
\* same name overwrites an earlier one.
findControllerClasses(classes) ==
    LET names == {classes[i].name : i \in {j \in 1..Len(classes) :
                                              EndsWithController(classes[j].name)}}
    IN [n \in names |->
          classes[CHOOSE i \in 1..Len(classes) :
                     /\ classes[i].name = n
                     /\ \A j \in 1..Len(classes) : classes[j].name = n => j <= i]]

getReturnType(method) ==
    IF method.ret.alias # "" THEN <<method.ret.alias>> ELSE StripImports(method.ret.text)

\* [...parameters].sort((a, b) => a.index - b.index): a stable sort.
RECURSIVE InsertByIndex(_, _)
InsertByIndex(sorted, p) ==
    IF sorted = <<>> THEN <<p>>
    ELSE IF Head(sorted).index <= p.index
         THEN <<Head(sorted)>> \o InsertByIndex(Tail(sorted), p)
         ELSE <<p>> \o sorted

RECURSIVE SortByIndex(_)
SortByIndex(params) ==
    IF params = <<>> THEN <<>>
    ELSE InsertByIndex(SortByIndex(SubSeq(params, 1, Len(params) - 1)),
                       params[Len(params)])

TypedParameter(index, name, type, param) ==
    [index |-> index, name |-> name, type |-> type, required |-> TRUE,
     data |-> param.data, metatype |-> param.metatype]

\* One iteration of the loop of getParametersWithTypes.
TypeOneParameter(method, param) ==
    LET index == param.index
        declaredParams == method.params
    IN IF index < Len(declaredParams)
       THEN LET declaredParam == declaredParams[index + 1]
            IN TypedParameter(index, declaredParam.name,
                              StripImports(declaredParam.type.text), param)
       ELSE TypedParameter(index, <<"param">> \o NumText(index),
                           IF param.metatype # "" THEN <<param.metatype>>
                           ELSE <<"unknown">>,
                           param)

\* A mutation of getParametersWithTypes: the descriptors are not sorted.
getParametersWithTypesUnsorted(method, params) ==
    [i \in 1..Len(params) |-> TypeOneParameter(method, params[i])]

getParametersWithTypes(method, params) ==
    LET sortedParams == SortByIndex(params)
    IN [i \in 1..Len(sortedParams) |-> TypeOneParameter(method, sortedParams[i])]

\* controllerClass.getMethods().find((method) => method.getName() === handlerName)
FindMethod(class, handlerName) ==
    LET hits == {i \in 1..Len(class.methods) : class.methods[i].name = handlerName}
    IN IF hits = {} THEN None ELSE Some(class.methods[Min(hits)])

createExtendedRoute(route, controllers) ==
    LET controllerName == safeToString(route.controller)
        handlerName == safeToString(route.handler)
        handlerMethod == IF controllerName \in DOMAIN controllers
                         THEN FindMethod(controllers[controllerName], handlerName)
                         ELSE None
    IN [controller |-> controllerName,
        handler |-> handlerName,
        method |-> toUpperCase(safeToString(route.method)),
        prefix |-> route.prefix,
        version |-> route.version,
        route |-> route.route,
        path |-> route.path,
        fullPath |-> buildFullPath(route.path, route.parameters),
        parameters |-> IF handlerMethod = None THEN None
                       ELSE Some(getParametersWithTypes(handlerMethod[1], route.parameters)),
        returns |-> IF handlerMethod = None THEN None
                    ELSE Some(getReturnType(handlerMethod[1]))]

\* The provider is only queried for a route whose controller class is found, so
\* only such a route can make createExtendedRoute throw.
CanThrow(route, controllers) == safeToString(route.controller) \in DOMAIN controllers

\* The message of the error the provider throws while route is resolved.
ProviderMessage(route) ==
    <<"cannot resolve ">> \o safeToString(route.controller) \o <<".">>
        \o safeToString(route.handler)

\* A mutation of the loop: a route whose handler method is not found is skipped.
RECURSIVE ProcessLoopSkipUnresolved(_, _, _, _)
ProcessLoopSkipUnresolved(routes, controllers, thrown, i) ==
    IF i > Len(routes) THEN [analyzedRoutes |-> <<>>, errors |-> <<>>]
    ELSE LET rest == ProcessLoopSkipUnresolved(routes, controllers, thrown, i + 1)
             route == createExtendedRoute(routes[i], controllers)
         IN IF i \in thrown
            THEN [rest EXCEPT !.errors = <<ProviderMessage(routes[i])>> \o @]
            ELSE IF route.parameters = None THEN rest
            ELSE [rest EXCEPT !.analyzedRoutes = <<route>> \o @]

\* The loop of processRoutes from route i on; thrown is the set of positions of
\* the routes for which createExtendedRoute throws.
RECURSIVE ProcessLoop(_, _, _, _)
ProcessLoop(routes, controllers, thrown, i) ==
    IF i > Len(routes) THEN [analyzedRoutes |-> <<>>, errors |-> <<>>]
    ELSE LET rest == ProcessLoop(routes, controllers, thrown, i + 1)
         IN IF i \notin thrown
            THEN [rest EXCEPT !.analyzedRoutes =
                      <<createExtendedRoute(routes[i], controllers)>> \o @]
            ELSE [rest EXCEPT !.errors = <<ProviderMessage(routes[i])>> \o @]

\* A mutation of the loop: the first failing route ends it.
RECURSIVE ProcessLoopStopAtFirst(_, _, _, _)
ProcessLoopStopAtFirst(routes, controllers, thrown, i) ==
    IF i > Len(routes) THEN [analyzedRoutes |-> <<>>, errors |-> <<>>]
    ELSE IF i \notin thrown
         THEN [ProcessLoopStopAtFirst(routes, controllers, thrown, i + 1)
                  EXCEPT !.analyzedRoutes =
                      <<createExtendedRoute(routes[i], controllers)>> \o @]
         ELSE [analyzedRoutes |-> <<>>, errors |-> <<ProviderMessage(routes[i])>>]

AggregatedMessage(errors) ==
    <<"Failed to process ">> \o NumText(Len(errors)) \o <<" routes: ">> \o Join(errors, ", ")

\* A mutation of processRoutes: see ProcessLoopStopAtFirst.
processRoutesFirstOnly(routes, controllers, thrown) ==
    LET r == ProcessLoopStopAtFirst(routes, controllers, thrown, 1)
    IN IF Len(r.errors) > 0
       THEN [threw |-> TRUE, error |-> Error("routes", AggregatedMessage(r.errors)),
             value |-> <<>>]
       ELSE [threw |-> FALSE, error |-> NoError, value |-> r.analyzedRoutes]

\* The result of a call: it threw `error`, or it returned `value`.
processRoutes(routes, controllers, thrown) ==
    LET r == ProcessLoop(routes, controllers, thrown, 1)
    IN IF Len(r.errors) > 0
       THEN [threw |-> TRUE, error |-> Error("routes", AggregatedMessage(r.errors)),
             value |-> <<>>]
       ELSE [threw |-> FALSE, error |-> NoError, value |-> r.analyzedRoutes]

ProjectError == Error("project", <<"cannot open project">>)

\* A mutation of analyzeControllerMethods: the project is created before the
\* route table is tested for emptiness.
analyzeControllerMethodsEager(routes, classes, projects, run, projectFails, thrown) ==
    IF projectFails
    THEN [threw |-> TRUE, error |-> ProjectError, value |-> <<>>, projects |-> projects]
    ELSE LET controllers == findControllerClasses(classes)
             tracked == Append(projects, run)
         IN IF Len(routes) = 0 \/ DOMAIN controllers = {}
            THEN [threw |-> FALSE, error |-> NoError, value |-> <<>>, projects |-> tracked]
            ELSE LET r == processRoutes(routes, controllers, thrown)
                 IN [threw |-> r.threw, error |-> r.error, value |-> r.value,
                     projects |-> tracked]

\* analyzeControllerMethods: `projects` is this.projects, and the result also
\* holds this.projects after the call. projectFails: createProject throws.
analyzeControllerMethods(routes, classes, projects, run, projectFails, thrown) ==
    IF Len(routes) = 0
    THEN [threw |-> FALSE, error |-> NoError, value |-> <<>>, projects |-> projects]
    ELSE IF projectFails
    THEN [threw |-> TRUE, error |-> ProjectError, value |-> <<>>, projects |-> projects]
    ELSE LET controllers == findControllerClasses(classes)
             tracked == Append(projects, run)
         IN IF DOMAIN controllers = {}
            THEN [threw |-> FALSE, error |-> NoError, value |-> <<>>, projects |-> tracked]
            ELSE LET r == processRoutes(routes, controllers, thrown)
                 IN [threw |-> r.threw, error |-> r.error, value |-> r.value,
                     projects |-> tracked]

\* A mutation of dispose: the tracked projects are kept.
disposeProjectsKeep(projects) == projects

\* this.projects = [] of both services' dispose().
disposeProjects(projects) == <<>>

\* ------------------------------------------------------------- schema-utils.ts
\* A JSON schema object; every member is optional (None when absent).
\* properties and definitions are ordered lists of [name, schema] entries.
Json(type, properties, required, definitions, enum, items) ==
    [type |-> type, properties |-> properties, required |-> required,
     definitions |-> definitions, enum |-> enum, items |-> items]

Entry(name, schema) == [name |-> name, schema |-> schema]

J_empty == Json(None, None, None, None, None, None)
J_string == Json(Some("string"), None, None, None, None, None)
J_integer == Json(Some("integer"), None, None, None, None, None)
J_boolean == Json(Some("boolean"), None, None, None, None, None)
J_role == Json(Some("string"), None, None, None, Some(<<"admin", "user">>), None)
J_tags == Json(Some("array"), None, None, None, None, Some(J_string))
J_meta == Json(Some("object"), None, None, None, None, None)
J_number == Json(Some("number"), None, None, None, None, None)
J_list == Json(Some("array"), None, None, None, None, None)

RECURSIVE mapJsonSchemaTypeToTypeScript(_)
mapJsonSchemaTypeToTypeScript(schema) ==
    LET type == schema.type
    IN CASE type = Some("string") ->
              IF schema.enum # None
              THEN <<"'">> \o Join([i \in 1..Len(schema.enum[1]) |-> <<schema.enum[1][i]>>],
                                      "' | '") \o <<"'">>
              ELSE <<"string">>
         [] type = Some("number") \/ type = Some("integer") -> <<"number">>
         [] type = Some("boolean") -> <<"boolean">>
         [] type = Some("array") ->
              mapJsonSchemaTypeToTypeScript(
                  IF schema.items # None THEN schema.items[1] ELSE J_empty) \o <<"[]">>
         [] type = Some("object") -> <<"Record<string, any>">>
         [] OTHER -> <<"any">>

\* schema.definitions?.[typeName]
Definition(schema, typeName) ==
    IF schema.definitions = None THEN None
    ELSE LET defs == schema.definitions[1]
             hits == {i \in 1..Len(defs) : defs[i].name = typeName}
         IN IF hits = {} THEN None ELSE Some(defs[Min(hits)].schema)

Includes(list, x) == \E i \in 1..Len(list) : list[i] = x

\* A mutation of generateTypeScriptInterface: the optional marker is put on
\* the required properties.
generateTypeScriptInterfaceInverted(typeName, schema) ==
    LET typeDefinition == Definition(schema, typeName)
    IN IF typeDefinition = None
       THEN <<"export interface ", typeName, " {\n", "\t// No schema definition found\n", "}">>
       ELSE LET def == typeDefinition[1]
                properties == IF def.properties # None THEN def.properties[1] ELSE <<>>
                required == IF def.required # None THEN def.required[1] ELSE <<>>
                Line(e) == <<"\t", e.name, IF Includes(required, e.name) THEN "?" ELSE "", ": ">>
                             \o mapJsonSchemaTypeToTypeScript(e.schema) \o <<"\n">>
            IN <<"export interface ", typeName, " {\n">>
                 \o Flatten([i \in 1..Len(properties) |-> Line(properties[i])])
                 \o <<"}">>

\* The body of the try block. The catch block (lines 54-57) is entered only
\* when reading a property schema throws, that is for a property whose schema
\* is null or undefined; a Json value is always an object, so the body
\* returns for every schema document of the model.
generateTypeScriptInterface(typeName, schema) ==
    LET typeDefinition == Definition(schema, typeName)
    IN IF typeDefinition = None
       THEN <<"export interface ", typeName, " {\n", "\t// No schema definition found\n", "}">>
       ELSE LET def == typeDefinition[1]
                properties == IF def.properties # None THEN def.properties[1] ELSE <<>>
                required == IF def.required # None THEN def.required[1] ELSE <<>>
                Line(e) == <<"\t", e.name, IF Includes(required, e.name) THEN "" ELSE "?", ": ">>
                             \o mapJsonSchemaTypeToTypeScript(e.schema) \o <<"\n">>
            IN <<"export interface ", typeName, " {\n">>
                 \o Flatten([i \in 1..Len(properties) |-> Line(properties[i])])
                 \o <<"}">>

\* ------------------------------------------------------------- type-utils.ts
GENERIC_TYPES == {"Array", "Promise", "Partial"}
BUILTIN_TYPES == {"string", "number", "boolean", "any", "void", "unknown"}

\* The named type of a Type, "" for null.
RECURSIVE extractNamedType(_)
extractNamedType(type) ==
    LET name == IF type.alias # "" THEN type.alias ELSE type.sym
    IN IF name = "" THEN ""
       ELSE IF name \in GENERIC_TYPES
       THEN LET inner == IF type.aliasArgs # <<>> THEN Some(type.aliasArgs[1])
                         ELSE IF type.args # <<>> THEN Some(type.args[1])
                         ELSE None
            IN IF inner # None THEN extractNamedType(inner[1]) ELSE ""
       ELSE IF name \in BUILTIN_TYPES THEN ""
       ELSE name

\* ---------------------------------------------------- SchemaGeneratorService
\* A mutation of Set.add: an element already present is added again.
SetAddAgain(set, x) == Append(set, x)

\* Set.add on a Set kept in insertion order.
SetAdd(set, x) == IF Includes(set, x) THEN set ELSE Append(set, x)

RECURSIVE AddAll(_, _)
AddAll(set, xs) == IF xs = <<>> THEN set ELSE AddAll(SetAdd(set, Head(xs)), Tail(xs))

\* The names collectTypesFromMethod adds for one method, in order.
MethodTypeNames(method) ==
    LET paramTypes == [i \in 1..Len(method.params) |->
                          extractNamedType(method.params[i].type)]
        returnType == method.ret
        innerType == IF returnType.args # <<>> THEN returnType.args[1] ELSE returnType
    IN SelectSeq(paramTypes \o <<extractNamedType(innerType)>>, LAMBDA t : t # "")

collectTypesFromMethod(method, collectedTypes) ==
    AddAll(collectedTypes, MethodTypeNames(method))

RECURSIVE CollectFromMethods(_, _)
CollectFromMethods(methods, collectedTypes) ==
    IF methods = <<>> THEN collectedTypes
    ELSE CollectFromMethods(Tail(methods), collectTypesFromMethod(Head(methods), collectedTypes))

RECURSIVE CollectFromClasses(_, _)
CollectFromClasses(classes, collectedTypes) ==
    IF classes = <<>> THEN collectedTypes
    ELSE CollectFromClasses(Tail(classes),
                            CollectFromMethods(Head(classes).methods, collectedTypes))

collectTypesFromControllers(classes) == CollectFromClasses(classes, <<>>)

\* What createGenerator(...).createSchema(typeName) returns for the types the
\* sources declare.
ObjectDefinition(properties, required) ==
    Json(Some("object"), Some(properties), Some(required), None, None, None)

Declared(typeName) ==
    CASE typeName = "User" ->
           ObjectDefinition(<<Entry("id", J_string), Entry("role", J_role),
                              Entry("tags", J_tags)>>, <<"id">>)
      [] typeName = "CreateUserDto" ->
           ObjectDefinition(<<Entry("name", J_string), Entry("age", J_integer)>>, <<"name">>)
      [] typeName = "Post" ->
           ObjectDefinition(<<Entry("title", J_string), Entry("meta", J_meta)>>,
                            <<"title", "meta">>)
      [] OTHER ->
           ObjectDefinition(<<Entry("value", J_boolean)>>, <<>>)

createSchema(typeName) ==
    Json(None, None, None, Some(<<Entry(typeName, Declared(typeName))>>), None, None)

FallbackSchema == Json(Some("object"), Some(<<>>), Some(<<>>), None, None, None)

\* A mutation of generateSchemaForType: the provider's error is not caught.
generateSchemaForTypeRethrow(typeName, failing) ==
    IF typeName \in failing
    THEN [threw |-> TRUE, value |-> J_empty]
    ELSE [threw |-> FALSE, value |-> createSchema(typeName)]

\* failing: the type names for which the schema provider throws.
generateSchemaForType(typeName, failing) ==
    IF typeName \in failing
    THEN [threw |-> FALSE, value |-> FallbackSchema]
    ELSE [threw |-> FALSE, value |-> createSchema(typeName)]

SchemaInfo(typeName, schema) ==
    [type |-> typeName, schema |-> schema,
     typescriptType |-> generateTypeScriptInterface(typeName, schema)]

RECURSIVE processTypes(_, _)
processTypes(collectedTypes, failing) ==
    IF collectedTypes = <<>> THEN <<>>
    ELSE LET typeName == Head(collectedTypes)
             r == generateSchemaForType(typeName, failing)
             rest == processTypes(Tail(collectedTypes), failing)
         IN IF r.threw THEN rest ELSE <<SchemaInfo(typeName, r.value)>> \o rest

SchemaProjectError == Error("schemas", <<"cannot open project">>)
SchemaScanError == Error("schemas", <<"cannot resolve type">>)

\* generateSchemas: `projects` is this.projects, and the result also holds
\* this.projects after the call. projectFails: createProject throws;
\* scanFails: the provider throws while the controller methods are scanned.
generateSchemas(classes, projects, run, projectFails, scanFails, failing) ==
    IF projectFails
    THEN [threw |-> TRUE, error |-> SchemaProjectError, value |-> <<>>,
          projects |-> projects]
    ELSE IF scanFails
    THEN [threw |-> TRUE, error |-> SchemaScanError, value |-> <<>>,
          projects |-> Append(projects, run)]
    ELSE [threw |-> FALSE, error |-> NoError,
          value |-> processTypes(collectTypesFromControllers(classes), failing),
          projects |-> Append(projects, run)]

\* ------------------------------------------------------------------ RPCPlugin
\* The collaborator that fails in this environment: opening the ts-morph
\* project of the route analyzer or of the schema generator, scanning the
\* controller methods for types, or emitting the client.
Faults == {"none", "routeProject", "schemaProject", "schemaScan", "client"}

Range(seq) == {seq[i] : i \in 1..Len(seq)}

ClientError == Error("client", <<"cannot write client">>)

\* ClientGeneratorService.generateClient: the GeneratedClientInfo it returns.
generateClient(routes, schemas, now) ==
    [clientFile |-> <<"client.ts">>, generatedAt |-> now]

getRoutes == analyzedRoutes
getSchemas == analyzedSchemas

\* The variables of collectTypesFromMethod and of generateTypeScriptInterface
\* while the function is not the one being applied.
CollectIdle ==
    /\ methodIn = Method(<<>>, <<>>, T_void)
    /\ collectedIn = <<>>
    /\ collectedOut = <<>>
    /\ collectDone = FALSE

InterfaceIdle ==
    /\ typeNameIn = ""
    /\ schemaIn = J_empty
    /\ interfaceCode = <<>>
    /\ interfaceDone = FALSE

Init ==
    /\ routeTable \in SeqsUpTo(RoutePool, MaxRoutes)
    /\ sources \in DistinctSeqsUpTo(ClassPool, MaxClasses)
    /\ fault \in Faults
    /\ throwing \in SUBSET {i \in 1..Len(routeTable) :
                              CanThrow(routeTable[i], findControllerClasses(sources))}
    /\ failingTypes \in SUBSET Range(collectTypesFromControllers(sources))
    \* a failure ends the run, so the failures after the first are never reached
    /\ throwing # {} => fault = "none" /\ failingTypes = {}
    /\ fault \in {"routeProject", "schemaProject", "schemaScan"} => failingTypes = {}
    /\ analyzedRoutes = <<>>
    /\ analyzedSchemas = <<>>
    /\ generatedInfo = None
    /\ raProjects = <<>>
    /\ sgProjects = <<>>
    /\ pc = "idle"
    /\ pendingError = NoError
    /\ outcome = "none"
    /\ lastError = NoError
    /\ runs = 0
    /\ clock = 0
    /\ preRoutes = <<>>
    /\ preSchemas = <<>>
    /\ clientCalls = <<>>
    /\ stages = <<>>
    /\ basePath = Empty
    /\ parameters = <<>>
    /\ fullPath = Empty
    /\ pathDone = FALSE
    /\ CollectIdle
    /\ InterfaceIdle

\* analyze() / afterModulesRegistered: analyzeEverything() is entered.
Analyze ==
    /\ pc = "idle"
    /\ runs < MaxRuns
    /\ pc' = "routes"
    /\ runs' = runs + 1
    /\ outcome' = "running"
    /\ pendingError' = NoError
    /\ lastError' = NoError
    /\ preRoutes' = getRoutes
    /\ preSchemas' = getSchemas
    /\ stages' = <<>>
    /\ UNCHANGED <<routeTable, sources, throwing, failingTypes, fault, analyzedRoutes,
                   analyzedSchemas, generatedInfo, raProjects, sgProjects, clock,
                   clientCalls, utilVars>>

\* Step 1 as it would be if a failed route analysis were logged and the run
\* went on to schema generation.
RouteStageSwallow ==
    /\ pc = "routes"
    /\ LET r == analyzeControllerMethods(routeTable, sources, raProjects, runs,
                                         fault = "routeProject", throwing)
       IN /\ raProjects' = r.projects
          /\ pc' = "schemas"
          /\ IF r.threw
             THEN /\ pendingError' = r.error
                  /\ UNCHANGED analyzedRoutes
             ELSE /\ analyzedRoutes' = analyzedRoutes \o r.value
                  /\ UNCHANGED pendingError
    /\ stages' = Append(stages, "routes")
    /\ UNCHANGED <<routeTable, sources, throwing, failingTypes, fault, analyzedSchemas,
                   generatedInfo, sgProjects, outcome, lastError, runs, clock, preRoutes,
                   preSchemas, clientCalls, utilVars>>

\* Step 1: this.analyzedRoutes.push(...(await analyzeControllerMethods()))
RouteStage ==
    /\ pc = "routes"
    /\ LET r == analyzeControllerMethods(routeTable, sources, raProjects, runs,
                                         fault = "routeProject", throwing)
       IN /\ raProjects' = r.projects
          /\ IF r.threw
             THEN /\ pc' = "catch"
                  /\ pendingError' = r.error
                  /\ UNCHANGED analyzedRoutes
             ELSE /\ pc' = "schemas"
                  /\ analyzedRoutes' = analyzedRoutes \o r.value
                  /\ UNCHANGED pendingError
    /\ stages' = Append(stages, "routes")
    /\ UNCHANGED <<routeTable, sources, throwing, failingTypes, fault, analyzedSchemas,
                   generatedInfo, sgProjects, outcome, lastError, runs, clock, preRoutes,
                   preSchemas, clientCalls, utilVars>>

\* Step 2: this.analyzedSchemas.push(...(await generateSchemas()))
SchemaStage ==
    /\ pc = "schemas"
    /\ LET r == generateSchemas(sources, sgProjects, runs, fault = "schemaProject",
                                fault = "schemaScan", failingTypes)
       IN /\ sgProjects' = r.projects
          /\ IF r.threw
             THEN /\ pc' = "catch"
                  /\ pendingError' = r.error
                  /\ UNCHANGED analyzedSchemas
             ELSE /\ pc' = "client"
                  /\ analyzedSchemas' = analyzedSchemas \o r.value
                  /\ UNCHANGED pendingError
    /\ stages' = Append(stages, "schemas")
    /\ UNCHANGED <<routeTable, sources, throwing, failingTypes, fault, analyzedRoutes,
                   generatedInfo, raProjects, outcome, lastError, runs, clock, preRoutes,
                   preSchemas, clientCalls, utilVars>>

\* Step 3: this.generatedInfo = await generateClient(analyzedRoutes, analyzedSchemas),
\* and the return of analyzeEverything after it.
ClientStage ==
    /\ pc = "client"
    /\ clock' = clock + 1
    /\ clientCalls' = Append(clientCalls, [run |-> runs, routes |-> analyzedRoutes,
                                           schemas |-> analyzedSchemas,
                                           threw |-> fault = "client"])
    /\ IF fault = "client"
       THEN /\ pc' = "catch"
            /\ pendingError' = ClientError
            /\ UNCHANGED <<generatedInfo, outcome>>
       ELSE /\ pc' = "idle"
            /\ generatedInfo' = Some(generateClient(analyzedRoutes, analyzedSchemas, clock'))
            /\ outcome' = "ok"
            /\ UNCHANGED pendingError
    /\ stages' = Append(stages, "client")
    /\ UNCHANGED <<routeTable, sources, throwing, failingTypes, fault, analyzedRoutes,
                   analyzedSchemas, raProjects, sgProjects, lastError, runs, preRoutes,
                   preSchemas, utilVars>>

\* The catch block of analyzeEverything: this.dispose(), then throw error.
Catch ==
    /\ pc = "catch"
    /\ raProjects' = disposeProjects(raProjects)
    /\ sgProjects' = disposeProjects(sgProjects)
    /\ lastError' = pendingError
    /\ outcome' = "failed"
    /\ pc' = "idle"
    /\ UNCHANGED <<routeTable, sources, throwing, failingTypes, fault, analyzedRoutes,
                   analyzedSchemas, generatedInfo, pendingError, runs, clock, preRoutes,
                   preSchemas, clientCalls, stages, utilVars>>

\* dispose() / onDestroy(), called by the host between runs.
Dispose ==
    /\ pc = "idle"
    /\ raProjects # <<>> \/ sgProjects # <<>>
    /\ raProjects' = disposeProjects(raProjects)
    /\ sgProjects' = disposeProjects(sgProjects)
    /\ UNCHANGED <<routeTable, sources, throwing, failingTypes, fault, analyzedRoutes,
                   analyzedSchemas, generatedInfo, pc, pendingError, outcome, lastError,
                   runs, clock, preRoutes, preSchemas, clientCalls, stages, utilVars>>

Next == Analyze \/ RouteStage \/ SchemaStage \/ ClientStage \/ Catch \/ Dispose

Spec == Init /\ [][Next]_vars

\* ------------------------------------------------ buildFullPath on its own
\* Path segments and data tokens the inputs are drawn from: a name, a longer
\* name it is a prefix of, and both as colon-prefixed placeholders.
SegmentPool == {<<"a">>, <<"a", "b">>, <<":", "a">>, <<":", "a", "b">>}
DataPool == {Empty, <<"a">>, <<":", "a">>, <<":", "a", "b">>}

PathOf(segments) == Flatten([i \in 1..Len(segments) |-> Slash \o segments[i]])

BasePaths == {PathOf(segs) : segs \in SeqsUpTo(SegmentPool, MaxSegments)} \cup {Slash}

ParameterLists ==
    {[i \in 1..Len(ds) |-> RawParam(i - 1, "param", ds[i], "")] :
        ds \in SeqsUpTo(DataPool, MaxPathParams)}

\* A plugin that analyses nothing, while a utility function is applied on its own.
PluginIdle ==
    /\ routeTable = <<>>
    /\ sources = <<>>
    /\ throwing = {}
    /\ failingTypes = {}
    /\ fault = "none"
    /\ analyzedRoutes = <<>>
    /\ analyzedSchemas = <<>>
    /\ generatedInfo = None
    /\ raProjects = <<>>
    /\ sgProjects = <<>>
    /\ pc = "idle"
    /\ pendingError = NoError
    /\ outcome = "none"
    /\ lastError = NoError
    /\ runs = 0
    /\ clock = 0
    /\ preRoutes = <<>>
    /\ preSchemas = <<>>
    /\ clientCalls = <<>>
    /\ stages = <<>>

\* The variables of buildFullPath while it is not the function being applied.
PathIdle ==
    /\ basePath = Empty
    /\ parameters = <<>>
    /\ fullPath = Empty
    /\ pathDone = FALSE

InitPath ==
    /\ basePath \in BasePaths
    /\ parameters \in ParameterLists
    /\ fullPath = Empty
    /\ pathDone = FALSE
    /\ PluginIdle
    /\ CollectIdle
    /\ InterfaceIdle

BuildFullPath ==
    /\ ~pathDone
    /\ fullPath' = buildFullPath(basePath, parameters)
    /\ pathDone' = TRUE
    /\ UNCHANGED <<basePath, parameters, pluginVars, collectVars, interfaceVars>>

NextPath == BuildFullPath

SpecPath == InitPath /\ [][NextPath]_vars

\* --------------------------------------- collectTypesFromMethod on its own
\* The types a method's parameters and return type are drawn from.
ParamTypePool == {T_string, T_User, T_CreateUserDto, T_PartialUser}
ReturnTypePool ==
    {T_void, T_string, T_User, T_PromiseUser, T_UserList, T_PartialUser, T_PageUser,
     T_MapStringPost, T_PairUserPost, T_PromisePair}

\* Methods with at most MaxDeclaredParams parameters.
MethodPool ==
    {Method(<<"handler">>, [i \in 1..Len(ts) |-> Param(<<"p", NumText(i)>>, ts[i])], r) :
        ts \in SeqsUpTo(ParamTypePool, MaxDeclaredParams), r \in ReturnTypePool}

\* What the Set may hold on entry: nothing, or names earlier methods added.
CollectedPool == {<<>>, <<"User">>, <<"Post", "CreateUserDto">>}

InitCollect ==
    /\ methodIn \in MethodPool
    /\ collectedIn \in CollectedPool
    /\ collectedOut = <<>>
    /\ collectDone = FALSE
    /\ PluginIdle
    /\ PathIdle
    /\ InterfaceIdle

CollectTypesFromMethod ==
    /\ ~collectDone
    /\ collectedOut' = collectTypesFromMethod(methodIn, collectedIn)
    /\ collectDone' = TRUE
    /\ UNCHANGED <<methodIn, collectedIn, pluginVars, pathVars, interfaceVars>>

NextCollect == CollectTypesFromMethod

SpecCollect == InitCollect /\ [][NextCollect]_vars

\* ---------------------------------- generateTypeScriptInterface on its own
\* Property names and property schemas the definitions are built from.
PropertyNames == {"id", "role", "tags"}
PropertySchemaPool ==
    {J_string, J_role, J_integer, J_number, J_boolean, J_tags, J_list, J_meta, J_empty}

\* The properties object of a definition: at most MaxProperties own
\* properties, in the order Object.entries lists them.
PropertyLists ==
    UNION {{[i \in 1..Len(ns) |-> Entry(ns[i], ss[i])] : ss \in [1..Len(ns) -> PropertySchemaPool]} :
              ns \in DistinctSeqsUpTo(PropertyNames, MaxProperties)}

RequiredPool == {None, Some(<<"id">>), Some(<<"role", "id">>)}

\* Definitions: object types with and without a required array, and the
\* definition of a string-literal union, which has no properties.
DefinitionPool ==
    {Json(Some("object"), Some(ps), rq, None, None, None) :
        ps \in PropertyLists, rq \in RequiredPool} \cup {J_role}

\* Schema documents: the fallback document, a document without definitions,
\* and documents holding a definition for User alone or after one for Post.
SchemaPool ==
    {FallbackSchema, J_empty}
    \cup {Json(None, None, None, Some(<<Entry("User", d)>>), None, None) : d \in DefinitionPool}
    \cup {Json(None, None, None, Some(<<Entry("Post", Declared("Post")), Entry("User", d)>>),
                None, None) : d \in DefinitionPool}

TypeNamePool == {"User", "Secret"}

InitInterface ==
    /\ typeNameIn \in TypeNamePool
    /\ schemaIn \in SchemaPool
    /\ interfaceCode = <<>>
    /\ interfaceDone = FALSE
    /\ PluginIdle
    /\ PathIdle
    /\ CollectIdle

GenerateTypeScriptInterface ==
    /\ ~interfaceDone
    /\ interfaceCode' = generateTypeScriptInterface(typeNameIn, schemaIn)
    /\ interfaceDone' = TRUE
    /\ UNCHANGED <<typeNameIn, schemaIn, pluginVars, pathVars, collectVars>>

NextInterface == GenerateTypeScriptInterface

SpecInterface == InitInterface /\ [][NextInterface]_vars

\* =================================================================== claims
\* The error of the current run, pending in the catch block or already re-raised.
RunError == IF pc = "catch" THEN pendingError ELSE lastError

\* The elements of a set of numbers, in ascending order.
RECURSIVE Ascending(_)
Ascending(S) == IF S = {} THEN <<>> ELSE <<Min(S)>> \o Ascending(S \ {Min(S)})

\* C1: two consecutive successful runs on the same plugin instance, with the
\* route table and the sources unchanged, pass the same enriched-route list and
\* the same schema-record list to client generation.
C1_IdempotentRegeneration ==
    \A i \in 1..(Len(clientCalls) - 1) :
        (/\ ~clientCalls[i].threw
         /\ ~clientCalls[i + 1].threw
         /\ clientCalls[i + 1].run = clientCalls[i].run + 1)
        => /\ clientCalls[i + 1].routes = clientCalls[i].routes
           /\ clientCalls[i + 1].schemas = clientCalls[i].schemas

\* C2: when processing throws for k >= 1 routes, route analysis fails with one
\* aggregated error that carries the count k and the k failure messages of all
\* the failing routes of the table, and the caller receives no enriched route.
C2_BatchFailureAtomicity ==
    (throwing # {} /\ runs > 0 /\ pc # "routes") =>
        LET failed == Ascending(throwing)
            k == Cardinality(throwing)
            messages == [j \in 1..k |-> ProviderMessage(routeTable[failed[j]])]
        IN /\ pc \in {"catch", "idle"}
           /\ pc = "idle" => outcome = "failed"
           /\ RunError.stage = "routes"
           /\ RunError.message =
                  <<"Failed to process ">> \o NumText(k) \o <<" routes: ">>
                      \o Join(messages, ", ")
           /\ getRoutes = <<>>

C2_Witness ==
    /\ outcome = "failed"
    /\ lastError.stage = "routes"
    /\ Len(routeTable) = 2
    /\ throwing = {1}
    /\ CanThrow(routeTable[2], findControllerClasses(sources))

\* C3: when a run of analyze() has ended, successfully or not, the tracked
\* project lists of the route analyzer and of the schema generator are empty.
C3_UnconditionalRelease ==
    (pc = "idle" /\ outcome \in {"ok", "failed"}) =>
        raProjects = <<>> /\ sgProjects = <<>>

\* C4: after a failed run getRoutes() and getSchemas() return what they
\* returned before that run started.
C4_DiscardOnFailure ==
    outcome = "failed" => getRoutes = preRoutes /\ getSchemas = preSchemas

\* C5: when the error of a failed run reaches the caller of analyze(), both
\* tracked project lists are empty and the error is the one the stage threw.
C5_ReleaseBeforeReraise ==
    outcome = "failed" =>
        /\ raProjects = <<>>
        /\ sgProjects = <<>>
        /\ lastError = pendingError
        /\ lastError # NoError

\* A run that failed in client generation, after both services had opened a
\* project in it.
C5_Witness ==
    /\ outcome = "failed"
    /\ lastError.stage = "client"
    /\ routeTable # <<>>
    /\ raProjects = <<>>
    /\ sgProjects = <<>>

\* C6: generateSchemas() never raises to its caller.
C6_SchemaGeneratorNeverFails == pendingError.stage # "schemas"

\* The records the schema stage of the current run pushed.
NewSchemas == SubSeq(analyzedSchemas, Len(preSchemas) + 1, Len(analyzedSchemas))

\* C7: a schema derivation that throws does not make generateSchemas fail, the
\* result holds a record with the fallback schema for every such type, and the
\* record of every other collected type holds the schema the provider returned.
C7_FallbackSafety ==
    /\ pendingError.stage = "schemas" => fault \in {"schemaProject", "schemaScan"}
    /\ pc = "client" =>
          \A t \in Range(collectTypesFromControllers(sources)) :
              \E i \in 1..Len(NewSchemas) :
                  /\ NewSchemas[i].type = t
                  /\ NewSchemas[i].schema =
                        IF t \in failingTypes
                        THEN Json(Some("object"), Some(<<>>), Some(<<>>), None, None, None)
                        ELSE createSchema(t)

C7_Witness ==
    /\ pc = "client"
    /\ failingTypes # {}
    /\ \E t \in Range(collectTypesFromControllers(sources)) : t \notin failingTypes
    /\ \E i \in 1..Len(NewSchemas) : NewSchemas[i].type \in failingTypes

\* seg is a whole segment of path.
HasSegment(path, seg) ==
    \E i \in Occurrences(path, seg) :
        /\ i = 1 \/ path[i - 1] = "/"
        /\ i + Len(seg) > Len(path) \/ path[i + Len(seg)] = "/"

\* C8: for every parameter whose data token ':name' matches a colon-prefixed
\* segment of the base path, the path returned by buildFullPath contains
\* ${name} and no remaining ':name' segment.
C8_PathInterpolation ==
    pathDone =>
        \A k \in 1..Len(parameters) :
            LET data == parameters[k].data
            IN (StartsWith(data, <<":">>) /\ HasSegment(basePath, data)) =>
                  /\ Contains(fullPath, InterpolationToken(SubSeq(data, 2, Len(data))))
                  /\ ~HasSegment(fullPath, data)

\* text.replace(/^\/+|\/+$/g, '')
RECURSIVE TrimSlashes(_)
TrimSlashes(s) ==
    IF s = <<>> THEN s
    ELSE IF Head(s) = "/" THEN TrimSlashes(Tail(s))
    ELSE IF s[Len(s)] = "/" THEN TrimSlashes(SubSeq(s, 1, Len(s) - 1))
    ELSE s

\* Every colon-prefixed segment of path rendered as ${name}; open: inside one.
RECURSIVE RenderPlaceholders(_, _)
RenderPlaceholders(path, open) ==
    IF path = <<>> THEN (IF open THEN <<"}">> ELSE <<>>)
    ELSE IF open /\ Head(path) = "/" THEN <<"}", "/">> \o RenderPlaceholders(Tail(path), FALSE)
    ELSE IF ~open /\ Head(path) = ":" THEN <<"$", "{">> \o RenderPlaceholders(Tail(path), TRUE)
    ELSE <<Head(path)>> \o RenderPlaceholders(Tail(path), open)

\* The full request path of a route: prefix, version, route and path, in that
\* order (/api, v1, users, / gives /api/v1/users/).
FullRequestPath(r) ==
    LET Part(text) == IF TrimSlashes(text) = <<>> THEN <<>> ELSE Slash \o TrimSlashes(text)
        head == Part(r.prefix) \o Part(r.version) \o Part(r.route)
        tail == IF TrimSlashes(r.path) # <<>> THEN Part(r.path)
                ELSE IF r.path = Slash THEN Slash ELSE <<>>
    IN IF head \o tail = <<>> THEN Slash ELSE head \o tail

\* C9: the fullPath of every enriched route is its full request path (prefix,
\* version, route, path) with the placeholders rendered as interpolation tokens.
C9_FullRequestPath ==
    \A k \in 1..Len(analyzedRoutes) :
        analyzedRoutes[k].fullPath =
            RenderPlaceholders(FullRequestPath(analyzedRoutes[k]), FALSE)

\* C10: for an enriched route whose handler method is found, parameters holds
\* one TypedParameter per raw descriptor of its route entry, ascending by
\* index, each required; named and typed after the declared parameter when the
\* index is within the declared list, and 'param' + index with the metatype
\* name or 'unknown' when it is beyond it.
C10_ParameterListInvariant ==
    \A k \in 1..Len(analyzedRoutes) : \A j \in 1..Len(routeTable) :
        LET r == analyzedRoutes[k]
            e == routeTable[j]
        IN (/\ safeToString(e.controller) = r.controller
            /\ safeToString(e.handler) = r.handler
            /\ r.parameters # None) =>
           LET ps == r.parameters[1]
               raw == e.parameters
               declared == FindMethod(findControllerClasses(sources)[r.controller],
                                      r.handler)[1].params
               Key(p) == <<p.index, p.data, p.metatype>>
           IN /\ Len(ps) = Len(raw)
              /\ \A d \in Range(raw) :
                    Cardinality({i \in 1..Len(raw) : Key(raw[i]) = Key(d)})
                        = Cardinality({i \in 1..Len(ps) : Key(ps[i]) = Key(d)})
              /\ \A a, b \in 1..Len(ps) : a < b => ps[a].index <= ps[b].index
              /\ \A i \in 1..Len(ps) :
                    /\ ps[i].required
                    /\ IF ps[i].index < Len(declared)
                       THEN /\ ps[i].name = declared[ps[i].index + 1].name
                            /\ ps[i].type = StripImports(declared[ps[i].index + 1].type.text)
                       ELSE /\ ps[i].name = <<"param">> \o NumText(ps[i].index)
                            /\ ps[i].type = IF ps[i].metatype # "" THEN <<ps[i].metatype>>
                                            ELSE <<"unknown">>

\* An enriched route built from descriptors given out of order, the second of
\* them beyond the declared parameters of the handler.
C10_Witness ==
    \E k \in 1..Len(analyzedRoutes) :
        /\ analyzedRoutes[k].parameters # None
        /\ Len(analyzedRoutes[k].parameters[1]) = 2
        /\ analyzedRoutes[k].parameters[1][1].name = <<"id">>
        /\ analyzedRoutes[k].parameters[1][2].name = <<"param", "1">>
        /\ analyzedRoutes[k].parameters[1][2].type = <<"unknown">>

\* The enriched routes the route stage of the current run pushed.
NewRoutes == SubSeq(analyzedRoutes, Len(preRoutes) + 1, Len(analyzedRoutes))

\* Every named type the scanned methods mention, in scan order, with repeats.
Mentions(classes) ==
    Flatten([c \in 1..Len(classes) |->
               Flatten([m \in 1..Len(classes[c].methods) |->
                          MethodTypeNames(classes[c].methods[m])])])

\* C11: generateSchemas returns one record for each distinct collected type
\* name, no two records with the same type name, in first-seen order.
C11_OneRecordPerType ==
    pc = "client" =>
        LET names == [i \in 1..Len(NewSchemas) |-> NewSchemas[i].type]
            seen == Mentions(sources)
            First(t) == Min({i \in 1..Len(seen) : seen[i] = t})
        IN /\ \A i, j \in 1..Len(names) : names[i] = names[j] => i = j
           /\ Range(names) = Range(seen)
           /\ \A i, j \in 1..Len(names) : i < j => First(names[i]) < First(names[j])

\* A schema stage over sources that mention one type more than once.
C11_Witness ==
    /\ pc = "client"
    /\ Len(NewSchemas) >= 2
    /\ \E i, j \in 1..Len(Mentions(sources)) :
          i # j /\ Mentions(sources)[i] = Mentions(sources)[j]

\* C12: with an empty route table analyzeControllerMethods returns an empty
\* list without touching the provider: no project is created or tracked, a
\* project that cannot be opened goes unnoticed, and no route is pushed.
C12_EmptyInput ==
    routeTable = <<>> =>
        /\ raProjects = <<>>
        /\ getRoutes = <<>>
        /\ pendingError.stage \notin {"project", "routes"}
        /\ pc \in {"schemas", "client"} => NewRoutes = <<>>

\* The route stage has returned for an empty route table, in an environment
\* where opening the route analyzer's project would have thrown.
C12_Witness ==
    /\ routeTable = <<>>
    /\ fault = "routeProject"
    /\ sources # <<>>
    /\ pc = "schemas"

\* C13: when route analysis succeeds and a controller class is found, the
\* result holds one enriched route per route-table entry, in table order, with
\* the entry's controller, handler and upper-cased method; an entry whose
\* controller class or handler method is not found has returns and parameters
\* unresolved.
C13_OneRoutePerEntry ==
    (pc = "schemas" /\ DOMAIN findControllerClasses(sources) # {}) =>
        /\ Len(NewRoutes) = Len(routeTable)
        /\ \A i \in 1..Len(routeTable) :
              LET e == routeTable[i]
                  r == NewRoutes[i]
                  found == \E c \in Range(sources) :
                              /\ EndsWithController(c.name)
                              /\ c.name = safeToString(e.controller)
                              /\ \E m \in Range(c.methods) : m.name = safeToString(e.handler)
              IN /\ r.controller = safeToString(e.controller)
                 /\ r.handler = safeToString(e.handler)
                 /\ r.method = toUpperCase(safeToString(e.method))
                 /\ r.method \in {<<"GET">>, <<"POST">>, <<"DELETE">>}
                 /\ ~found => r.returns = None /\ r.parameters = None

\* A successful route stage over a table with a resolved entry followed by an
\* entry whose handler method the controller class does not declare.
C13_Witness ==
    /\ pc = "schemas"
    /\ Len(routeTable) = 2
    /\ Len(NewRoutes) = 2
    /\ NewRoutes[1].parameters # None
    /\ NewRoutes[2].parameters = None
    /\ NewRoutes[2].controller \in DOMAIN findControllerClasses(sources)

\* The named types the handler methods of the route table's entries mention.
RouteReferencedTypes ==
    UNION {Range(MethodTypeNames(m[1])) :
             m \in {FindMethod(findControllerClasses(sources)[safeToString(e.controller)],
                               safeToString(e.handler)) :
                      e \in {x \in Range(routeTable) :
                               safeToString(x.controller)
                                   \in DOMAIN findControllerClasses(sources)}} \ {None}}

\* C14: every SchemaRecord of a run is for a named type referenced by the
\* parameter types or the return type of an enriched route of that run.
C14_SchemasFollowRoutes ==
    pc = "client" =>
        \A i \in 1..Len(NewSchemas) : NewSchemas[i].type \in RouteReferencedTypes


\* The order in which analyzeEverything invokes the stages.
StageOrder == <<"routes", "schemas", "client">>

\* The successful generateClient calls, by their position in clientCalls.
ReturnedCalls == {k \in 1..Len(clientCalls) : ~clientCalls[k].threw}

\* C16 (Stage ordering): the stages a run has invoked are always a prefix of
\* route analysis, schema generation, client generation; a stage is about to
\* start only when every earlier stage has been invoked and none has failed;
\* a failure of route analysis leaves route analysis as the only stage of the
\* run and a failure of schema generation leaves exactly the first two; and
\* the generation metadata, when present, is the result of the latest client
\* generation call that returned.
C16_StageOrdering ==
    /\ Len(stages) <= Len(StageOrder)
    /\ stages = SubSeq(StageOrder, 1, Len(stages))
    /\ pc = "routes" => stages = <<>> /\ pendingError = NoError
    /\ pc = "schemas" => stages = <<"routes">> /\ pendingError = NoError
    /\ pc = "client" => stages = <<"routes", "schemas">> /\ pendingError = NoError
    /\ RunError.stage \in {"project", "routes"} => stages = <<"routes">>
    /\ RunError.stage = "schemas" => stages = <<"routes", "schemas">>
    /\ outcome = "ok" => stages = StageOrder
    /\ IF ReturnedCalls = {}
       THEN generatedInfo = None
       ELSE LET k == CHOOSE c \in ReturnedCalls : \A d \in ReturnedCalls : d <= c
            IN generatedInfo = Some(generateClient(clientCalls[k].routes,
                                                   clientCalls[k].schemas, k))

\* A run aborted by schema generation after route analysis produced routes:
\* client generation was never called and there is no generation metadata.
C16_Witness ==
    /\ outcome = "failed"
    /\ lastError.stage = "schemas"
    /\ stages = <<"routes", "schemas">>
    /\ analyzedRoutes # <<>>
    /\ clientCalls = <<>>
    /\ generatedInfo = None


\* The name the return type contributes according to the rule: the canonical
\* name of the first type argument when there is exactly one, the canonical
\* name of the return type itself otherwise.
ReturnContribution(returnType) ==
    IF Len(returnType.args) = 1
    THEN extractNamedType(returnType.args[1])
    ELSE extractNamedType(returnType)

\* C15 (Return-type collection): after collectTypesFromMethod the Set holds
\* what it held before, then the canonical names of the parameter types, then
\* the name the return type contributes by the rule above (first type
\* argument only for a single-argument generic, the return type itself for a
\* non-generic type or a generic with two or more arguments), each added once
\* and only when non-null.
C15_ReturnTypeCollection ==
    collectDone =>
        LET paramTypes == [i \in 1..Len(methodIn.params) |->
                              extractNamedType(methodIn.params[i].type)]
            names == SelectSeq(paramTypes \o <<ReturnContribution(methodIn.ret)>>,
                               LAMBDA t : t # "")
        IN collectedOut = AddAll(collectedIn, names)


\* The fixed mapping from a property schema to type text, as a table.
RECURSIVE MappedType(_)
MappedType(s) ==
    LET Union(values) == <<"'", values[1]>>
                           \o Flatten([i \in 1..(Len(values) - 1) |-> <<"' | '", values[i + 1]>>])
                           \o <<"'">>
    IN IF s.type = Some("string") /\ s.enum # None THEN Union(s.enum[1])
       ELSE IF s.type = Some("string") THEN <<"string">>
       ELSE IF s.type \in {Some("integer"), Some("number")} THEN <<"number">>
       ELSE IF s.type = Some("boolean") THEN <<"boolean">>
       ELSE IF s.type = Some("array")
       THEN (IF s.items = None THEN <<"any">> ELSE MappedType(s.items[1])) \o <<"[]">>
       ELSE IF s.type = Some("object") THEN <<"Record<string, any>">>
       ELSE <<"any">>

\* The entries of the schema's definitions that are named name.
DefinitionsFor(name, s) ==
    IF s.definitions = None THEN <<>>
    ELSE SelectSeq(s.definitions[1], LAMBDA e : e.name = name)

====
